---- MODULE Spec2Model ----
(***************************************************************************)
(* Model of the dental-staffing mini-app backend (src/main.py): validated  *)
(* upsert of Assistant / Employer profiles keyed by an optional Telegram   *)
(* user id with a fallback to the Telegram username, the read endpoints,   *)
(* and the administrative summary / list / delete endpoints.               *)
(*                                                                         *)
(* Encoding of Python values:                                              *)
(*   str            a sequence of one-character strings, "" is << >>       *)
(*   None (str/list) the one-element sequence <<"None">>; no str or list   *)
(*                  has that shape, its elements being single characters   *)
(*                  or strs                                                *)
(*   None (int)     -1 (the ids and thresholds drawn are all >= 0)         *)
(* The two allow-listed city names are Cyrillic in the source; the model   *)
(* spells them in Latin letters (the module is ASCII).                     *)
(***************************************************************************)
EXTENDS Integers, Sequences, FiniteSets, TLC

None == <<"None">>
NoneInt == -1

\* -------------------- Bounds --------------------
\* Number of rows ever inserted (readings of the clock by an insert).
MaxTime == 2
\* Number of concurrent upsert requests in SpecRace.
NSessions == 2

\* -------------------- Config --------------------
ADMIN_TG_ID == 810418985
ALLOWED_CITIES == { <<"M","o","s","k","v","a">>,
                    <<"S","a","n","k","t","-","P","e","t","e","r","b","u","r","g">> }
DEFAULT_RATING == 5
LIST_LIMIT == 500
ADMIN_LIST_LIMIT == 800
MIN_PHONE_DIGITS == 10

\* -------------------- Characters and strings --------------------
Digits == {"0","1","2","3","4","5","6","7","8","9"}
Whitespace == {" "}
\* The class [\d+] of normalize_phone
PhoneChars == Digits \cup {"+"}
\* Code-point order of the characters that occur in the model's strings.
CharOrder == <<" ", "+", "-", "0","1","2","3","4","5","6","7","8","9",
               "A","B","M","P","S","a","b","c","d","e","g","h","i","k","l","n",
               "o","r","s","t","u","v","y">>
Ord == [c \in { CharOrder[i] : i \in DOMAIN CharOrder } |->
            CHOOSE i \in DOMAIN CharOrder : CharOrder[i] = c]

\* Python truthiness of an Optional[int] and of an Optional[str].
TruthyInt(n) == n # NoneInt /\ n # 0
TruthyStr(s) == s # None /\ s # << >>

\* a or b, for an int and for a str
OrInt(a, b) == IF TruthyInt(a) THEN a ELSE b
OrStr(a, b) == IF TruthyStr(a) THEN a ELSE b

\* str.strip()
RECURSIVE FirstInner(_, _)
FirstInner(s, i) == IF i > Len(s) THEN i
                    ELSE IF s[i] \in Whitespace THEN FirstInner(s, i + 1) ELSE i
RECURSIVE LastInner(_, _)
LastInner(s, i) == IF i < 1 THEN i
                   ELSE IF s[i] \in Whitespace THEN LastInner(s, i - 1) ELSE i
Strip(s) == SubSeq(s, FirstInner(s, 1), LastInner(s, Len(s)))

IsDigit(c) == c \in Digits
IsPhoneChar(c) == c \in PhoneChars
IsNotPlus(c) == c # "+"

\* s < t for Python strs (lexicographic by code point), from index i on
RECURSIVE StrLessFrom(_, _, _)
StrLessFrom(s, t, i) ==
    IF i > Len(t) THEN FALSE
    ELSE IF i > Len(s) THEN TRUE
    ELSE IF s[i] = t[i] THEN StrLessFrom(s, t, i + 1)
    ELSE Ord[s[i]] < Ord[t[i]]
StrLess(s, t) == StrLessFrom(s, t, 1)

\* sorted(set(out)): each str of out put at its place in the sorted list,
\* unless it is there already
RECURSIVE Placed(_, _)
Placed(sorted, d) ==
    IF sorted = << >> THEN <<d>>
    ELSE IF d = Head(sorted) THEN sorted
    ELSE IF StrLess(d, Head(sorted)) THEN <<d>> \o sorted
    ELSE <<Head(sorted)>> \o Placed(Tail(sorted), d)
\* The strs of out in the order of their first occurrence.
RECURSIVE FirstOccurrences(_)
FirstOccurrences(out) ==
    IF out = << >> THEN << >>
    ELSE LET rest == FirstOccurrences(SubSeq(out, 1, Len(out) - 1))
             d == out[Len(out)]
         IN IF \E i \in DOMAIN rest : rest[i] = d THEN rest ELSE Append(rest, d)
RECURSIVE SortedSetFrom(_, _, _)
SortedSetFrom(out, i, sorted) ==
    IF i > Len(out) THEN sorted ELSE SortedSetFrom(out, i + 1, Placed(sorted, out[i]))
SortedSet(out) == SortedSetFrom(out, 1, << >>)

Range(f) == { f[i] : i \in DOMAIN f }

\* (x or "").strip() or None
StripOrNone(x) == LET s == Strip(OrStr(x, << >>)) IN IF s = << >> THEN None ELSE s

\* -------------------- Helpers --------------------
\* The ValueErrors raised by the validators (no str or list has this shape).
PhoneTooShort == <<"ValueError: phone_too_short">>
BadCity == <<"ValueError: bad_city">>
BadDate == <<"ValueError: bad_date">>

\* normalize_phone: the normalized phone, or PhoneTooShort
normalize_phone(phone) ==
    LET p == SelectSeq(Strip(OrStr(phone, << >>)), IsPhoneChar)
        digits == SelectSeq(p, IsDigit)
    IN IF Len(digits) < MIN_PHONE_DIGITS THEN PhoneTooShort ELSE p

\* validate_city: the trimmed city, or BadCity
validate_city(city) ==
    LET c == Strip(OrStr(city, << >>))
    IN IF c \notin ALLOWED_CITIES THEN BadCity ELSE c

\* re.fullmatch(r"\d{4}-\d{2}-\d{2}", d)
MatchesDate(d) ==
    /\ Len(d) = 10
    /\ \A i \in {1, 2, 3, 4, 6, 7, 9, 10} : d[i] \in Digits
    /\ d[5] = "-" /\ d[8] = "-"

\* validate_dates: the sorted, de-duplicated list, or BadDate
validate_dates(dates) ==
    LET ds == IF dates = None THEN << >> ELSE dates
        out == [i \in DOMAIN ds |-> Strip(OrStr(ds[i], << >>))]
    IN IF \E i \in DOMAIN out : ~MatchesDate(out[i]) THEN BadDate
       ELSE SortedSet(out)

\* int(s) for a str of decimal digits
RECURSIVE DigitsToInt(_)
DigitsToInt(s) == IF s = << >> THEN 0
                  ELSE 10 * DigitsToInt(SubSeq(s, 1, Len(s) - 1)) + (Ord[s[Len(s)]] - Ord["0"])

IsDigits(s) == s # << >> /\ \A i \in DOMAIN s : s[i] \in Digits

\* int(s): <<n>>, or << >> where int() raises ValueError.  int() ignores
\* surrounding whitespace and takes one sign before the digits.
IntOf(s) ==
    LET v == Strip(s)
        signed == v # << >> /\ Head(v) \in {"+", "-"}
        body == IF signed THEN Tail(v) ELSE v
    IN IF ~IsDigits(body) THEN << >>
       ELSE IF signed /\ Head(v) = "-" THEN <<0 - DigitsToInt(body)>>
       ELSE <<DigitsToInt(body)>>

\* exp_to_int: every "+" removed, then int(), 0 when int() raises
exp_to_int(exp_str) ==
    LET s == SelectSeq(Strip(OrStr(exp_str, << >>)), IsNotPlus)
    IN IF IntOf(s) = << >> THEN 0 ELSE IntOf(s)[1]

\* rate_to_int returning 0 where it returns None.
RateOrZero(rate_str) ==
    IF rate_str = None THEN <<0>>
    ELSE LET s == Strip(rate_str)
         IN IF s # << >> /\ \A i \in DOMAIN s : s[i] \in Digits THEN <<DigitsToInt(s)>>
            ELSE <<0>>

\* rate_to_int: <<int(float(s))>> for the trimmed str s, << >> for None: when
\* rate_str is None, when s is "" and when float() raises.  float() is
\* modelled on an optional sign and digits with at most one decimal point;
\* int() truncates the fraction.
rate_to_int(rate_str) ==
    IF rate_str = None THEN << >>
    ELSE LET s == Strip(rate_str)
             signed == s # << >> /\ Head(s) \in {"+", "-"}
             body == IF signed THEN Tail(s) ELSE s
             dots == { i \in DOMAIN body : body[i] = "." }
             cut == IF dots = {} THEN Len(body) + 1 ELSE CHOOSE i \in dots : TRUE
             whole == SubSeq(body, 1, cut - 1)
             frac == SubSeq(body, cut + 1, Len(body))
             value == DigitsToInt(whole)
         IN IF s = << >> THEN << >>
            ELSE IF Cardinality(dots) > 1 THEN << >>
            ELSE IF ~(\A i \in DOMAIN whole : whole[i] \in Digits) THEN << >>
            ELSE IF ~(\A i \in DOMAIN frac : frac[i] \in Digits) THEN << >>
            ELSE IF whole = << >> /\ frac = << >> THEN << >>
            ELSE IF signed /\ Head(s) = "-" THEN <<0 - value>>
            ELSE <<value>>

\* json.dumps(dates, ensure_ascii=False) for a list of strs without quotes
RECURSIVE JsonItems(_)
JsonItems(ds) == IF ds = << >> THEN << >>
                 ELSE <<"\"">> \o Head(ds) \o <<"\"">>
                      \o (IF Tail(ds) = << >> THEN << >> ELSE <<",", " ">> \o JsonItems(Tail(ds)))
json_dumps(ds) == <<"[">> \o JsonItems(ds) \o <<"]">>

\* json.loads(text) for the text of a JSON array of strs
RECURSIVE JsonScan(_, _, _, _, _)
JsonScan(t, i, cur, inStr, acc) ==
    IF i > Len(t) THEN acc
    ELSE IF t[i] = "\"" THEN
             IF inStr THEN JsonScan(t, i + 1, << >>, FALSE, Append(acc, cur))
             ELSE JsonScan(t, i + 1, << >>, TRUE, acc)
    ELSE IF inStr THEN JsonScan(t, i + 1, Append(cur, t[i]), TRUE, acc)
    ELSE JsonScan(t, i + 1, cur, FALSE, acc)
json_loads(t) == JsonScan(t, 1, << >>, FALSE, << >>)

\* -------------------- State --------------------
VARIABLES
    assistants,   \* table "assistants": the set of its rows
    employers,    \* table "employers": the set of its rows
    now,          \* the last reading of datetime.utcnow taken by an insert
    resp,         \* the response being returned to the client, NoResp when idle
    sessions      \* the upsert requests in flight (SpecRace), one per worker thread

vars == <<assistants, employers, now, resp, sessions>>

Sessions == 1..NSessions

Ids(rows) == { r.id : r \in rows }
Row(rows, id) == CHOOSE r \in rows : r.id = id
Max(S) == CHOOSE x \in S : \A y \in S : y <= x
Min(S) == CHOOSE x \in S : \A y \in S : x <= y

\* Integer primary key of SQLite (a rowid without AUTOINCREMENT): one more than
\* the largest id in the table, 1 for an empty table.
NextRowId(rows) == IF rows = {} THEN 1 ELSE Max(Ids(rows)) + 1

\* db.query(T).filter(T.tg_user_id == v).first(): the id of the first match in
\* rowid order, 0 for None.  NULL equals nothing.
FirstByUserId(rows, v) ==
    LET m == { r \in rows : r.tg_user_id # NoneInt /\ r.tg_user_id = v }
    IN IF m = {} THEN 0 ELSE Min(Ids(m))

\* db.query(T).filter(T.tg_username == v).first()
FirstByUsername(rows, v) ==
    LET m == { r \in rows : r.tg_username # None /\ r.tg_username = v }
    IN IF m = {} THEN 0 ELSE Min(Ids(m))

\* db.query(T).filter(T.id == v).first()
FirstById(rows, v) == IF v \in Ids(rows) THEN v ELSE 0

\* The lookup without its second query: the tg_username is never consulted.
FindObjIdOnly(rows, tg_user_id, tg_username) ==
    IF TruthyInt(tg_user_id) THEN FirstByUserId(rows, tg_user_id) ELSE 0

\* The lookup with its two queries in the other order: tg_username first.
FindObjHandleFirst(rows, tg_user_id, tg_username) ==
    LET byName == IF TruthyStr(tg_username) THEN FirstByUsername(rows, tg_username) ELSE 0
    IN IF byName = 0 /\ TruthyInt(tg_user_id) THEN FirstByUserId(rows, tg_user_id)
       ELSE byName

\* The identity lookup shared by upsert_* and get_my_*: by tg_user_id when it
\* is truthy, then by tg_username when nothing was found and it is truthy.
FindObj(rows, tg_user_id, tg_username) ==
    LET byId == IF TruthyInt(tg_user_id) THEN FirstByUserId(rows, tg_user_id) ELSE 0
    IN IF byId = 0 /\ TruthyStr(tg_username) THEN FirstByUsername(rows, tg_username)
       ELSE byId

\* Assistant(...) built without tg_username=payload.tg_username.
NewAssistantNoHandle(payload, city, phone, dates, id, t) ==
    [ id |-> id,
      tg_user_id |-> payload.tg_user_id,
      tg_username |-> None,
      name |-> Strip(payload.name),
      city |-> city,
      phone |-> phone,
      exp |-> Strip(payload.exp),
      rate |-> StripOrNone(payload.rate),
      about |-> StripOrNone(payload.about),
      availability_dates |-> json_dumps(dates),
      rating |-> DEFAULT_RATING,
      created_at |-> t ]

\* Assistant(...) as inserted: id from the table, rating and created_at from
\* the column defaults.
NewAssistant(payload, city, phone, dates, id, t) ==
    [ id |-> id,
      tg_user_id |-> payload.tg_user_id,
      tg_username |-> payload.tg_username,
      name |-> Strip(payload.name),
      city |-> city,
      phone |-> phone,
      exp |-> Strip(payload.exp),
      rate |-> StripOrNone(payload.rate),
      about |-> StripOrNone(payload.about),
      availability_dates |-> json_dumps(dates),
      rating |-> DEFAULT_RATING,
      created_at |-> t ]

\* The update branch with the identity assigned like every other field,
\* without "or obj.tg_user_id" and "or obj.tg_username".
UpdatedAssistantOverwrite(obj, payload, city, phone, dates) ==
    [ obj EXCEPT
      !.tg_user_id = payload.tg_user_id,
      !.tg_username = payload.tg_username,
      !.name = Strip(payload.name),
      !.city = city,
      !.phone = phone,
      !.exp = Strip(payload.exp),
      !.rate = StripOrNone(payload.rate),
      !.about = StripOrNone(payload.about),
      !.availability_dates = json_dumps(dates) ]

\* The update branch keeping the tg_user_id the row has, when it has one.
UpdatedAssistantKeepId(obj, payload, city, phone, dates) ==
    [ obj EXCEPT
      !.tg_user_id = OrInt(obj.tg_user_id, payload.tg_user_id),
      !.tg_username = OrStr(payload.tg_username, obj.tg_username),
      !.name = Strip(payload.name),
      !.city = city,
      !.phone = phone,
      !.exp = Strip(payload.exp),
      !.rate = StripOrNone(payload.rate),
      !.about = StripOrNone(payload.about),
      !.availability_dates = json_dumps(dates) ]

\* The assignments of the update branch of upsert_assistant to the loaded obj.
UpdatedAssistant(obj, payload, city, phone, dates) ==
    [ obj EXCEPT
      !.tg_user_id = OrInt(payload.tg_user_id, obj.tg_user_id),
      !.tg_username = OrStr(payload.tg_username, obj.tg_username),
      !.name = Strip(payload.name),
      !.city = city,
      !.phone = phone,
      !.exp = Strip(payload.exp),
      !.rate = StripOrNone(payload.rate),
      !.about = StripOrNone(payload.about),
      !.availability_dates = json_dumps(dates) ]

NewEmployer(payload, city, phone, id, t) ==
    [ id |-> id,
      tg_user_id |-> payload.tg_user_id,
      tg_username |-> payload.tg_username,
      clinic |-> Strip(payload.clinic),
      city |-> city,
      phone |-> phone,
      about |-> StripOrNone(payload.about),
      rating |-> DEFAULT_RATING,
      created_at |-> t ]

UpdatedEmployer(obj, payload, city, phone) ==
    [ obj EXCEPT
      !.tg_user_id = OrInt(payload.tg_user_id, obj.tg_user_id),
      !.tg_username = OrStr(payload.tg_username, obj.tg_username),
      !.clinic = Strip(payload.clinic),
      !.city = city,
      !.phone = phone,
      !.about = StripOrNone(payload.about) ]

\* db.add(obj); db.commit()
Inserted(rows, row) == rows \cup {row}
\* The UPDATE without its WHERE clause.
CommittedAll(rows, obj, row) ==
    { [c \in DOMAIN r |-> IF row[c] # obj[c] THEN row[c] ELSE r[c]] : r \in rows }

\* db.commit() of the loaded obj after its attributes were assigned the values
\* of row: UPDATE <the columns whose value changed> WHERE id = obj.id
Committed(rows, obj, row) ==
    { IF r.id = obj.id
      THEN [c \in DOMAIN r |-> IF row[c] # obj[c] THEN row[c] ELSE r[c]]
      ELSE r : r \in rows }
\* db.delete(obj) without the commit: the session closes and rolls back.
DeletedNoCommit(rows, id) == rows

\* db.delete(obj); db.commit()
Deleted(rows, id) == { r \in rows : r.id # id }

\* Validation without the call of validate_city.
AssistantErrorNoCity(payload) ==
    IF normalize_phone(payload.phone) = PhoneTooShort THEN "phone"
    ELSE IF validate_dates(payload.availability_dates) = BadDate THEN "date"
    ELSE ""

\* The validators of upsert_assistant with the city validated first.
AssistantErrorCityFirst(payload) ==
    IF validate_city(payload.city) = BadCity THEN "city"
    ELSE IF normalize_phone(payload.phone) = PhoneTooShort THEN "phone"
    ELSE IF validate_dates(payload.availability_dates) = BadDate THEN "date"
    ELSE ""

\* The outcome of validation in upsert_assistant, in the order of the code:
\* which validator raised first (the handler answers 400 with a detail for
\* it), "" when all three pass.
AssistantError(payload) ==
    IF normalize_phone(payload.phone) = PhoneTooShort THEN "phone"
    ELSE IF validate_city(payload.city) = BadCity THEN "city"
    ELSE IF validate_dates(payload.availability_dates) = BadDate THEN "date"
    ELSE ""

EmployerError(payload) ==
    IF normalize_phone(payload.phone) = PhoneTooShort THEN "phone"
    ELSE IF validate_city(payload.city) = BadCity THEN "city"
    ELSE ""

\* obj = None
NoObj == [id |-> 0]
Loaded(rows, id) == IF id = 0 THEN NoObj ELSE Row(rows, id)

\* The update branch building a fresh Assistant(...) with the id of obj
\* instead of assigning to obj: the column defaults apply again.
AssistantWrittenFresh(obj, payload, id, t) ==
    NewAssistant(payload, validate_city(payload.city), normalize_phone(payload.phone),
                 validate_dates(payload.availability_dates),
                 IF obj.id = 0 THEN id ELSE obj.id, t)

\* The row written by upsert_assistant for a valid payload: obj is the loaded
\* row, or NoObj.
AssistantWritten(obj, payload, id, t) ==
    LET phone == normalize_phone(payload.phone)
        city == validate_city(payload.city)
        dates == validate_dates(payload.availability_dates)
    IN IF obj.id = 0 THEN NewAssistant(payload, city, phone, dates, id, t)
       ELSE UpdatedAssistant(obj, payload, city, phone, dates)

EmployerWritten(obj, payload, id, t) ==
    LET phone == normalize_phone(payload.phone)
        city == validate_city(payload.city)
    IN IF obj.id = 0 THEN NewEmployer(payload, city, phone, id, t)
       ELSE UpdatedEmployer(obj, payload, city, phone)

\* A request served and its response: the endpoint, the HTTP status and
\* detail, the id of the object returned (0 for None), the identity the
\* request carried (for a listing its filters), the ids (or counts) of a
\* listing, and the branch an upsert took ("insert" or "update").
Call(op, kind, status, detail, id, ident, items, wrote) ==
    [ op |-> op, kind |-> kind, status |-> status, detail |-> detail,
      id |-> id, ident |-> ident, items |-> items, wrote |-> wrote ]

\* -------------------- Inputs --------------------
UserIds == {NoneInt, 0, 1, 2}
Usernames == {None, << >>, <<"a","l">>}

Phone1 == <<"+","7"," ","9","9","9"," ","1","1","1"," ","2","2"," ","3","3">>
Phone2 == <<"8","-","9","9","9","-","1","1","1","-","2","2","-","3","3">>
PhoneShort == <<"1","2","3","4","5","6","7","8">>
City1 == <<"M","o","s","k","v","a">>
City2 == <<" ","S","a","n","k","t","-","P","e","t","e","r","b","u","r","g"," ">>
CityBad == <<"b","a","d","-","c","i","t","y">>
Date1 == <<"2","0","2","4","-","0","5","-","0","1">>
Date2 == <<"2","0","2","4","-","0","5","-","0","2">>
DateBad == <<"2","0","2","4","-","5","-","1">>

\* The fields of AssistantIn other than the identity.
AssistantFields ==
    LET v1 == [ name |-> <<" ","A","l","i","n","a">>, city |-> City1, phone |-> Phone1,
                exp |-> <<"3","+">>, rate |-> <<"4","0","0">>, about |-> None,
                availability_dates |-> <<Date2, Date1, Date2>> ]
        v2 == [ name |-> <<"B","o","b">>, city |-> City2, phone |-> Phone2,
                exp |-> <<"0">>, rate |-> None, about |-> <<" ","h","i"," ">>,
                availability_dates |-> None ]
    IN { v1, v2,
         [v1 EXCEPT !.phone = PhoneShort],
         [v2 EXCEPT !.city = CityBad],
         [v1 EXCEPT !.availability_dates = <<Date1, DateBad>>] }

\* The fields of EmployerIn other than the identity.
EmployerFields ==
    LET v1 == [ clinic |-> <<"D","e","n","t"," ">>, city |-> City1, phone |-> Phone1,
                about |-> None ]
        v2 == [ clinic |-> <<"S","t","o","m">>, city |-> City2, phone |-> Phone2,
                about |-> <<"h","i">> ]
    IN { v1, v2, [v1 EXCEPT !.phone = PhoneShort], [v2 EXCEPT !.city = CityBad] }

WithIdentity(f, u, h, kind) ==
    IF kind = "assistant"
    THEN [ tg_user_id |-> u, tg_username |-> h, name |-> f.name, city |-> f.city,
           phone |-> f.phone, exp |-> f.exp, rate |-> f.rate, about |-> f.about,
           availability_dates |-> f.availability_dates ]
    ELSE [ tg_user_id |-> u, tg_username |-> h, clinic |-> f.clinic, city |-> f.city,
           phone |-> f.phone, about |-> f.about ]

AssistantIn == { WithIdentity(f, u, h, "assistant") :
                 f \in AssistantFields, u \in UserIds, h \in Usernames }
EmployerIn == { WithIdentity(f, u, h, "employer") :
                f \in EmployerFields, u \in UserIds, h \in Usernames }

Kinds == {"assistant", "employer", "clinic"}
\* The callers of the admin endpoints: the administrator and a regular user.
Callers == {ADMIN_TG_ID, 1}
ItemIds == 0..MaxTime

NoResp == Call("", "", 0, "", 0, << >>, << >>, "")

\* -------------------- API: Assistants --------------------
\* The write with the lookup repeated at the time of the write, as one
\* statement (an INSERT ... ON CONFLICT DO UPDATE).
AssistantsAfterAtomic(rows, obj, payload, t) ==
    LET cur == Loaded(rows, FindObj(rows, payload.tg_user_id, payload.tg_username))
        row == AssistantWritten(cur, payload, NextRowId(rows), t)
    IN IF cur.id = 0 THEN Inserted(rows, row) ELSE Committed(rows, cur, row)

\* The table after the write of upsert_assistant with the loaded obj.
AssistantsAfter(rows, obj, payload, t) ==
    LET row == AssistantWritten(obj, payload, NextRowId(rows), t)
    IN IF obj.id = 0 THEN Inserted(rows, row) ELSE Committed(rows, obj, row)

\* POST /api/assistant
UpsertAssistant(payload) ==
    LET err == AssistantError(payload)
        obj == Loaded(assistants, FindObj(assistants, payload.tg_user_id, payload.tg_username))
        id == IF obj.id = 0 THEN NextRowId(assistants) ELSE obj.id
    IN /\ resp = NoResp
       /\ IF err # ""
          THEN /\ resp' = Call("upsert", "assistant", 400, err, 0,
                               <<payload.tg_user_id, payload.tg_username>>, << >>, "")
               /\ UNCHANGED <<assistants, employers, now, sessions>>
          ELSE /\ obj.id = 0 => now < MaxTime
               /\ now' = IF obj.id = 0 THEN now + 1 ELSE now
               /\ assistants' = AssistantsAfter(assistants, obj, payload, now + 1)
               /\ resp' = Call("upsert", "assistant", 200, "", id,
                               <<payload.tg_user_id, payload.tg_username>>, << >>,
                               IF obj.id = 0 THEN "insert" ELSE "update")
               /\ UNCHANGED <<employers, sessions>>

\* GET /api/assistant
GetMyAssistant(tg_user_id, tg_username) ==
    /\ resp = NoResp
    /\ resp' = Call("get_my", "assistant", 200, "",
                    FindObj(assistants, tg_user_id, tg_username),
                    <<tg_user_id, tg_username>>, << >>, "")
    /\ UNCHANGED <<assistants, employers, now, sessions>>

\* assistant_to_dict
assistant_to_dict(a) ==
    [ a EXCEPT !.availability_dates =
          json_loads(OrStr(a.availability_dates, <<"[", "]">>)) ]

\* ORDER BY rating DESC, created_at DESC: a comes before b.  Rows that tie on
\* both keys come in rowid order.
RanksBefore(a, b) ==
    \/ a.rating > b.rating
    \/ a.rating = b.rating /\ a.created_at > b.created_at
    \/ a.rating = b.rating /\ a.created_at = b.created_at /\ a.id < b.id

\* The ordering with .asc() for .desc() on created_at.
OrderByRatingOldestFirst(rows) ==
    LET placed == { <<Cardinality({ o \in rows : RanksBefore(r, o) }) + 1, r>> : r \in rows }
    IN [i \in 1..Cardinality(rows) |-> (CHOOSE p \in placed : p[1] = i)[2]]

\* q.order_by(Assistant.rating.desc(), Assistant.created_at.desc()).all():
\* each row at the place given by the number of rows that come before it.
OrderByRating(rows) ==
    LET placed == { <<Cardinality({ o \in rows : RanksBefore(o, r) }) + 1, r>> : r \in rows }
    IN [i \in 1..Cardinality(rows) |-> (CHOOSE p \in placed : p[1] = i)[2]]

\* ORDER BY created_at DESC: a comes before b (ties in rowid order).
CreatedBefore(a, b) ==
    \/ a.created_at > b.created_at
    \/ a.created_at = b.created_at /\ a.id < b.id

\* q.order_by(T.created_at.desc()).all()
OrderByCreated(rows) ==
    LET placed == { <<Cardinality({ o \in rows : CreatedBefore(o, r) }) + 1, r>> : r \in rows }
    IN [i \in 1..Cardinality(rows) |-> (CHOOSE p \in placed : p[1] = i)[2]]

\* .limit(n)
Limit(seq, n) == SubSeq(seq, 1, IF Len(seq) < n THEN Len(seq) ELSE n)

\* list_assistants with .limit(500) applied to the filtered list.
ListResultFilterFirst(rows, city, date, exp_min, rate_max) ==
    LET c == Strip(city)
        d == Strip(date)
        base == IF TruthyStr(city) THEN { r \in rows : r.city = c } ELSE rows
        ordered == OrderByRating(base)
        items == [i \in DOMAIN ordered |-> assistant_to_dict(ordered[i])]
        HasDate(a) == ~TruthyStr(date) \/ d \in Range(a.availability_dates)
        HasExp(a) == exp_min = NoneInt \/ exp_to_int(a.exp) >= exp_min
        HasRate(a) == \/ rate_max = NoneInt
                      \/ LET r == rate_to_int(a.rate) IN r # << >> /\ r[1] <= rate_max
        Passes(a) == HasDate(a) /\ HasExp(a) /\ HasRate(a)
    IN IF TruthyStr(city) /\ c \notin ALLOWED_CITIES THEN << >>
       ELSE IF TruthyStr(date) /\ ~MatchesDate(d) THEN << >>
       ELSE Limit(SelectSeq(items, Passes), LIST_LIMIT)

\* The list returned by list_assistants.
ListResult(rows, city, date, exp_min, rate_max) ==
    LET c == Strip(city)
        d == Strip(date)
        base == IF TruthyStr(city) THEN { r \in rows : r.city = c } ELSE rows
        window == Limit(OrderByRating(base), LIST_LIMIT)
        items == [i \in DOMAIN window |-> assistant_to_dict(window[i])]
        HasDate(a) == ~TruthyStr(date) \/ d \in Range(a.availability_dates)
        HasExp(a) == exp_min = NoneInt \/ exp_to_int(a.exp) >= exp_min
        HasRate(a) == \/ rate_max = NoneInt
                      \/ LET r == rate_to_int(a.rate) IN r # << >> /\ r[1] <= rate_max
        Passes(a) == HasDate(a) /\ HasExp(a) /\ HasRate(a)
    IN IF TruthyStr(city) /\ c \notin ALLOWED_CITIES THEN << >>
       ELSE IF TruthyStr(date) /\ ~MatchesDate(d) THEN << >>
       ELSE SelectSeq(items, Passes)

IdsOf(seq) == [i \in DOMAIN seq |-> seq[i].id]

\* list_assistants raising HTTPException(400) for a filter it does not
\* accept, as the upserts do.
ListAssistantsStrict(city, date, exp_min, rate_max) ==
    /\ resp = NoResp
    /\ resp' = IF \/ TruthyStr(city) /\ Strip(city) \notin ALLOWED_CITIES
                  \/ TruthyStr(date) /\ ~MatchesDate(Strip(date))
               THEN Call("list", "assistant", 400, "bad filter", 0,
                         <<city, date, exp_min, rate_max>>, << >>, "")
               ELSE Call("list", "assistant", 200, "", 0, <<city, date, exp_min, rate_max>>,
                         IdsOf(ListResult(assistants, city, date, exp_min, rate_max)), "")
    /\ UNCHANGED <<assistants, employers, now, sessions>>

\* GET /api/assistants
ListAssistants(city, date, exp_min, rate_max) ==
    /\ resp = NoResp
    /\ resp' = Call("list", "assistant", 200, "", 0, <<city, date, exp_min, rate_max>>,
                    IdsOf(ListResult(assistants, city, date, exp_min, rate_max)), "")
    /\ UNCHANGED <<assistants, employers, now, sessions>>

\* -------------------- API: Employers --------------------
\* The table after the write of upsert_employer with the loaded obj.
EmployersAfter(rows, obj, payload, t) ==
    LET row == EmployerWritten(obj, payload, NextRowId(rows), t)
    IN IF obj.id = 0 THEN Inserted(rows, row) ELSE Committed(rows, obj, row)

\* POST /api/employer
UpsertEmployer(payload) ==
    LET err == EmployerError(payload)
        obj == Loaded(employers, FindObj(employers, payload.tg_user_id, payload.tg_username))
        id == IF obj.id = 0 THEN NextRowId(employers) ELSE obj.id
    IN /\ resp = NoResp
       /\ IF err # ""
          THEN /\ resp' = Call("upsert", "employer", 400, err, 0,
                               <<payload.tg_user_id, payload.tg_username>>, << >>, "")
               /\ UNCHANGED <<assistants, employers, now, sessions>>
          ELSE /\ obj.id = 0 => now < MaxTime
               /\ now' = IF obj.id = 0 THEN now + 1 ELSE now
               /\ employers' = EmployersAfter(employers, obj, payload, now + 1)
               /\ resp' = Call("upsert", "employer", 200, "", id,
                               <<payload.tg_user_id, payload.tg_username>>, << >>,
                               IF obj.id = 0 THEN "insert" ELSE "update")
               /\ UNCHANGED <<assistants, sessions>>

\* GET /api/employer
GetMyEmployer(tg_user_id, tg_username) ==
    /\ resp = NoResp
    /\ resp' = Call("get_my", "employer", 200, "",
                    FindObj(employers, tg_user_id, tg_username),
                    <<tg_user_id, tg_username>>, << >>, "")
    /\ UNCHANGED <<assistants, employers, now, sessions>>

\* -------------------- Admin API --------------------
\* require_admin testing only that a tg_user_id was given.
ForbiddenUnlessGiven(tg_user_id) == tg_user_id = NoneInt

\* require_admin: TRUE when it raises HTTPException(403)
Forbidden(tg_user_id) == tg_user_id # ADMIN_TG_ID

\* GET /api/admin/summary
AdminSummary(tg_user_id) ==
    /\ resp = NoResp
    /\ resp' = IF Forbidden(tg_user_id)
               THEN Call("admin_summary", "", 403, "Admin only", 0, <<tg_user_id>>, << >>, "")
               ELSE Call("admin_summary", "", 200, "", 0, <<tg_user_id>>,
                         <<Cardinality(assistants), Cardinality(employers)>>, "")
    /\ UNCHANGED <<assistants, employers, now, sessions>>

\* GET /api/admin/assistants
AdminListAssistants(tg_user_id) ==
    /\ resp = NoResp
    /\ resp' = IF Forbidden(tg_user_id)
               THEN Call("admin_list", "assistant", 403, "Admin only", 0, <<tg_user_id>>, << >>, "")
               ELSE Call("admin_list", "assistant", 200, "", 0, <<tg_user_id>>,
                         IdsOf(Limit(OrderByCreated(assistants), ADMIN_LIST_LIMIT)), "")
    /\ UNCHANGED <<assistants, employers, now, sessions>>

\* GET /api/admin/employers
AdminListEmployers(tg_user_id) ==
    /\ resp = NoResp
    /\ resp' = IF Forbidden(tg_user_id)
               THEN Call("admin_list", "employer", 403, "Admin only", 0, <<tg_user_id>>, << >>, "")
               ELSE Call("admin_list", "employer", 200, "", 0, <<tg_user_id>>,
                         IdsOf(Limit(OrderByCreated(employers), ADMIN_LIST_LIMIT)), "")
    /\ UNCHANGED <<assistants, employers, now, sessions>>

\* admin_delete with require_admin called after the kind and the id were
\* looked at.
AdminDeleteKindFirst(kind, item_id, tg_user_id) ==
    LET obj == IF kind = "assistant" THEN FirstById(assistants, item_id)
               ELSE FirstById(employers, item_id)
    IN /\ resp = NoResp
       /\ IF kind \notin {"assistant", "employer"}
          THEN /\ resp' = Call("admin_delete", kind, 400, "bad kind", 0, <<tg_user_id>>, << >>, "")
               /\ UNCHANGED <<assistants, employers, now, sessions>>
          ELSE IF obj = 0
          THEN /\ resp' = Call("admin_delete", kind, 404, "not found", 0, <<tg_user_id>>, << >>, "")
               /\ UNCHANGED <<assistants, employers, now, sessions>>
          ELSE IF Forbidden(tg_user_id)
          THEN /\ resp' = Call("admin_delete", kind, 403, "Admin only", 0, <<tg_user_id>>, << >>, "")
               /\ UNCHANGED <<assistants, employers, now, sessions>>
          ELSE /\ assistants' = IF kind = "assistant" THEN Deleted(assistants, obj)
                                ELSE assistants
               /\ employers' = IF kind = "employer" THEN Deleted(employers, obj)
                               ELSE employers
               /\ resp' = Call("admin_delete", kind, 200, "", obj, <<tg_user_id>>, << >>, "")
               /\ UNCHANGED <<now, sessions>>

\* admin_delete removing the rows with the id from both tables.
AdminDeleteBoth(kind, item_id, tg_user_id) ==
    LET obj == IF kind = "assistant" THEN FirstById(assistants, item_id)
               ELSE FirstById(employers, item_id)
    IN /\ resp = NoResp
       /\ IF Forbidden(tg_user_id)
          THEN /\ resp' = Call("admin_delete", kind, 403, "Admin only", 0, <<tg_user_id>>, << >>, "")
               /\ UNCHANGED <<assistants, employers, now, sessions>>
          ELSE IF kind \notin {"assistant", "employer"}
          THEN /\ resp' = Call("admin_delete", kind, 400, "bad kind", 0, <<tg_user_id>>, << >>, "")
               /\ UNCHANGED <<assistants, employers, now, sessions>>
          ELSE IF obj = 0
          THEN /\ resp' = Call("admin_delete", kind, 404, "not found", 0, <<tg_user_id>>, << >>, "")
               /\ UNCHANGED <<assistants, employers, now, sessions>>
          ELSE /\ assistants' = { r \in assistants : r.id # obj }
               /\ employers' = { r \in employers : r.id # obj }
               /\ resp' = Call("admin_delete", kind, 200, "", obj, <<tg_user_id>>, << >>, "")
               /\ UNCHANGED <<now, sessions>>

\* POST /api/admin/delete
AdminDelete(kind, item_id, tg_user_id) ==
    LET obj == IF kind = "assistant" THEN FirstById(assistants, item_id)
               ELSE FirstById(employers, item_id)
    IN /\ resp = NoResp
       /\ IF Forbidden(tg_user_id)
          THEN /\ resp' = Call("admin_delete", kind, 403, "Admin only", 0, <<tg_user_id>>, << >>, "")
               /\ UNCHANGED <<assistants, employers, now, sessions>>
          ELSE IF kind \notin {"assistant", "employer"}
          THEN /\ resp' = Call("admin_delete", kind, 400, "bad kind", 0, <<tg_user_id>>, << >>, "")
               /\ UNCHANGED <<assistants, employers, now, sessions>>
          ELSE IF obj = 0
          THEN /\ resp' = Call("admin_delete", kind, 404, "not found", 0, <<tg_user_id>>, << >>, "")
               /\ UNCHANGED <<assistants, employers, now, sessions>>
          ELSE /\ assistants' = IF kind = "assistant" THEN Deleted(assistants, obj)
                                ELSE assistants
               /\ employers' = IF kind = "employer" THEN Deleted(employers, obj)
                               ELSE employers
               /\ resp' = Call("admin_delete", kind, 200, "", obj, <<tg_user_id>>, << >>, "")
               /\ UNCHANGED <<now, sessions>>

\* The handler returns (finally: db.close()) and the response leaves.
Reply ==
    /\ resp # NoResp
    /\ resp' = NoResp
    /\ UNCHANGED <<assistants, employers, now, sessions>>

\* -------------------- Sequential service --------------------
Idle == [pc |-> "idle"]

\* A fresh database file (Base.metadata.create_all) and no request in flight.
Init ==
    /\ assistants = {}
    /\ employers = {}
    /\ now = 0
    /\ resp = NoResp
    /\ sessions = [s \in Sessions |-> Idle]

\* The arguments of list_assistants.
ListCities == {None, City1, CityBad}
ListDates == {None, <<" ">> \o Date1, DateBad}
ListExpMin == {NoneInt, 1}
ListRateMax == {NoneInt, 500}

\* Requests served one at a time, each handler running to completion.
Next ==
    \/ \E payload \in AssistantIn : UpsertAssistant(payload)
    \/ \E payload \in EmployerIn : UpsertEmployer(payload)
    \/ \E u \in UserIds, h \in Usernames : GetMyAssistant(u, h)
    \/ \E u \in UserIds, h \in Usernames : GetMyEmployer(u, h)
    \/ \E c \in ListCities, d \in ListDates, e \in ListExpMin, r \in ListRateMax :
           ListAssistants(c, d, e, r)
    \/ \E caller \in Callers : AdminSummary(caller)
    \/ \E caller \in Callers : AdminListAssistants(caller)
    \/ \E caller \in Callers : AdminListEmployers(caller)
    \/ \E kind \in Kinds, item_id \in ItemIds, caller \in Callers :
           AdminDelete(kind, item_id, caller)
    \/ Reply

Spec == Init /\ [][Next]_vars

\* -------------------- Concurrent upserts --------------------
\* FastAPI runs the handlers in a thread pool, each request with a session of
\* its own.  The SELECTs of the identity lookup take no lock that outlives
\* them; the INSERT or UPDATE and its COMMIT come later.  A session is
\* Idle, has loaded obj, or is done.
Looked(kind, payload, obj) ==
    [pc |-> "loaded", kind |-> kind, payload |-> payload, obj |-> obj]
Done(kind, status, id, wrote) ==
    [pc |-> "done", kind |-> kind, status |-> status, id |-> id, wrote |-> wrote]

\* upsert_assistant up to the identity lookup (lines 178-199)
QueryAssistant(s, payload) ==
    /\ sessions[s].pc = "idle"
    /\ sessions' = [sessions EXCEPT ![s] =
           IF AssistantError(payload) # "" THEN Done("assistant", 400, 0, "")
           ELSE Looked("assistant", payload,
                       Loaded(assistants,
                              FindObj(assistants, payload.tg_user_id, payload.tg_username)))]
    /\ UNCHANGED <<assistants, employers, now, resp>>

\* upsert_employer up to the identity lookup (lines 299-315)
QueryEmployer(s, payload) ==
    /\ sessions[s].pc = "idle"
    /\ sessions' = [sessions EXCEPT ![s] =
           IF EmployerError(payload) # "" THEN Done("employer", 400, 0, "")
           ELSE Looked("employer", payload,
                       Loaded(employers,
                              FindObj(employers, payload.tg_user_id, payload.tg_username)))]
    /\ UNCHANGED <<assistants, employers, now, resp>>

\* upsert_assistant from the branch on obj to the commit (lines 201-227)
WriteAssistant(s) ==
    LET obj == sessions[s].obj
        id == IF obj.id = 0 THEN NextRowId(assistants) ELSE obj.id
    IN /\ sessions[s].pc = "loaded"
       /\ sessions[s].kind = "assistant"
       /\ obj.id = 0 => now < MaxTime
       /\ now' = IF obj.id = 0 THEN now + 1 ELSE now
       /\ assistants' = AssistantsAfter(assistants, obj, sessions[s].payload, now + 1)
       /\ sessions' = [sessions EXCEPT ![s] =
              Done("assistant", 200, id, IF obj.id = 0 THEN "insert" ELSE "update")]
       /\ UNCHANGED <<employers, resp>>

\* upsert_employer from the branch on obj to the commit (lines 317-337)
WriteEmployer(s) ==
    LET obj == sessions[s].obj
        id == IF obj.id = 0 THEN NextRowId(employers) ELSE obj.id
    IN /\ sessions[s].pc = "loaded"
       /\ sessions[s].kind = "employer"
       /\ obj.id = 0 => now < MaxTime
       /\ now' = IF obj.id = 0 THEN now + 1 ELSE now
       /\ employers' = EmployersAfter(employers, obj, sessions[s].payload, now + 1)
       /\ sessions' = [sessions EXCEPT ![s] =
              Done("employer", 200, id, IF obj.id = 0 THEN "insert" ELSE "update")]
       /\ UNCHANGED <<assistants, resp>>

NextRace ==
    \/ \E s \in Sessions, payload \in AssistantIn : QueryAssistant(s, payload)
    \/ \E s \in Sessions, payload \in EmployerIn : QueryEmployer(s, payload)
    \/ \E s \in Sessions : WriteAssistant(s)
    \/ \E s \in Sessions : WriteEmployer(s)

SpecRace == Init /\ [][NextRace]_vars

\* -------------------- Listings of a populated store --------------------
SmallStore == 6

\* The fields the i-th user registers with.
FieldsAt(i) ==
    [ name |-> <<"U", "s", "e", "r">>,
      city |-> IF i % 4 = 0 /\ i <= 12 THEN City2 ELSE City1,
      phone |-> Phone1,
      exp |-> IF i % 3 = 1 THEN <<"3", "+">> ELSE IF i % 3 = 2 THEN <<"0">> ELSE <<"5">>,
      rate |-> IF i % 4 = 1 THEN <<"4", "0", "0">>
               ELSE IF i % 4 = 2 THEN <<"6", "0", "0">>
               ELSE IF i % 4 = 3 THEN None
               ELSE <<"n", "/", "a">>,
      about |-> None,
      availability_dates |-> IF i % 2 = 1 THEN <<Date1>> ELSE None ]

\* Table "assistants" after n users registered one after another, user i
\* with tg_user_id i at time i: the rows upsert_assistant inserted.
Registered(n) ==
    { AssistantWritten(NoObj, WithIdentity(FieldsAt(i), i, None, "assistant"), i, i) :
        i \in 1..n }

\* Small stores, and stores of LIST_LIMIT rows and more (the last one with
\* more than LIST_LIMIT rows in one city).
StoreSizes == (0..SmallStore) \cup {LIST_LIMIT, LIST_LIMIT + 1, LIST_LIMIT + 4}

InitList ==
    /\ assistants \in { Registered(n) : n \in StoreSizes }
    /\ employers = {}
    /\ now = Cardinality(assistants)
    /\ resp = NoResp
    /\ sessions = [s \in Sessions |-> Idle]

\* The arguments of list_assistants.
FilterCities == ListCities \cup {City2}
FilterDates == ListDates

NextList ==
    \/ \E city \in FilterCities, date \in FilterDates,
          exp_min \in ListExpMin, rate_max \in ListRateMax :
          ListAssistants(city, date, exp_min, rate_max)
    \/ Reply

SpecList == InitList /\ [][NextList]_vars

\* -------------------- Validators on arbitrary input --------------------
\* Longest run of characters around the digits of a phone input.
MaxAffix == 2
\* Longest list of dates.
MaxDates == 3
\* Longest experience string.
MaxExpLen == 3

\* The strs of at most n characters over the alphabet A.
Strs(A, n) == UNION { [1..k -> A] : k \in 0..n }

Nines(k) == [i \in 1..k |-> "9"]

\* Arguments of normalize_phone: 7 to 9 nines between two short runs of
\* "+", " ", "-" and "7", so from 7 to 9 + 2 * MaxAffix digits.
PhoneInputs ==
    { pre \o Nines(k) \o suf :
        pre \in Strs({"+", " ", "7"}, MaxAffix), k \in {7, 8, 9},
        suf \in Strs({"+", "-", "7"}, MaxAffix) }

\* Arguments of validate_dates: the lists of at most MaxDates entries (None is
\* read as the empty list, which is among them).
DateNoCalendar == <<"2","0","2","4","-","1","3","-","9","9">>
DateEntries == { Date1, Date2, <<" ">> \o Date1 \o <<" ">>, DateBad, << >>, DateNoCalendar,
                 <<"2","0","2","4","/","0","5","/","0","1">> }
DateInputs == Strs(DateEntries, MaxDates)

\* Arguments of exp_to_int.
ExpInputs == Strs({"1", "2", "+", " ", "-", "x"}, MaxExpLen)
\* The experience strings the upserts of SpecInput store.
ExpSamples == { <<"3", "+">>, <<"1", "+", "2">>, <<"3", "+", "+">>, <<"x">>, <<"1", "2">> }
ExpThresholds == {NoneInt, 1, 3, 12}

\* A call of normalize_phone, its argument and its result kept in resp.
CallNormalizePhone(phone) ==
    /\ resp = NoResp
    /\ resp' = Call("normalize_phone", "", 0, "", 0, <<phone>>, <<normalize_phone(phone)>>, "")
    /\ UNCHANGED <<assistants, employers, now, sessions>>

\* A call of validate_dates.
CallValidateDates(dates) ==
    /\ resp = NoResp
    /\ resp' = Call("validate_dates", "", 0, "", 0, <<dates>>, <<validate_dates(dates)>>, "")
    /\ UNCHANGED <<assistants, employers, now, sessions>>

\* A call of exp_to_int.
CallExpToInt(exp_str) ==
    /\ resp = NoResp
    /\ resp' = Call("exp_to_int", "", 0, "", 0, <<exp_str>>, <<exp_to_int(exp_str)>>, "")
    /\ UNCHANGED <<assistants, employers, now, sessions>>

\* The profile user 1 submits, one field at a time replaced by an input above.
BaseAssistant ==
    [ name |-> <<"A", "n", "n", "a">>, city |-> City1, phone |-> Phone1,
      exp |-> <<"3", "+">>, rate |-> <<"4", "0", "0">>, about |-> None,
      availability_dates |-> <<Date1>> ]
BaseEmployer ==
    [ clinic |-> <<"D", "e", "n", "t">>, city |-> City1, phone |-> Phone1, about |-> None ]

\* AssistantIn.phone (min_length=8, max_length=40): the phone inputs of 9 to 11
\* characters with at most one character before the nines.
PhonePayloads ==
    { WithIdentity([BaseAssistant EXCEPT !.phone = p], 1, None, "assistant") :
        p \in { q \in PhoneInputs : Len(q) >= 8 /\ Len(q) <= 40 /\ Len(q) \in 9..11
                                     /\ SubSeq(q, 2, 8) = Nines(7) } }
\* AssistantIn.availability_dates: the lists of at most two entries.
DatePayloads ==
    { WithIdentity([BaseAssistant EXCEPT !.availability_dates = d], 1, None, "assistant") :
        d \in { l \in DateInputs : Len(l) <= 2 } }
ExpPayloads ==
    { WithIdentity([BaseAssistant EXCEPT !.exp = e], 1, None, "assistant") : e \in ExpSamples }

\* Payloads with every combination of a valid or invalid phone, city and dates.
FaultPayloads(kind) ==
    IF kind = "assistant"
    THEN { WithIdentity([BaseAssistant EXCEPT !.phone = p, !.city = c,
                                              !.availability_dates = d], 1, None, kind) :
             p \in {Phone1, PhoneShort}, c \in {City1, CityBad},
             d \in {<<Date1>>, <<DateBad>>} }
    ELSE { WithIdentity([BaseEmployer EXCEPT !.phone = p, !.city = c], 1, None, kind) :
             p \in {Phone1, PhoneShort}, c \in {City1, CityBad} }

NextInput ==
    \/ \E phone \in PhoneInputs : CallNormalizePhone(phone)
    \/ \E dates \in DateInputs : CallValidateDates(dates)
    \/ \E exp_str \in ExpInputs : CallExpToInt(exp_str)
    \/ \E payload \in PhonePayloads \cup DatePayloads \cup ExpPayloads
                      \cup FaultPayloads("assistant") : UpsertAssistant(payload)
    \/ \E payload \in FaultPayloads("employer") : UpsertEmployer(payload)
    \/ \E exp_min \in ExpThresholds : ListAssistants(None, None, exp_min, NoneInt)
    \/ Reply

SpecInput == Init /\ [][NextInput]_vars

\* -------------------- Users changing accounts --------------------
\* Three Telegram accounts and one username that passes between them.
RebindIds == {NoneInt, 1, 2, 3}
RebindHandles == {None, <<"a", "l">>}
RebindPayloads(kind) ==
    { WithIdentity(IF kind = "assistant" THEN BaseAssistant ELSE BaseEmployer, u, h, kind) :
        u \in RebindIds, h \in RebindHandles }

NextRebind ==
    \/ \E payload \in RebindPayloads("assistant") : UpsertAssistant(payload)
    \/ \E payload \in RebindPayloads("employer") : UpsertEmployer(payload)
    \/ \E u \in RebindIds, h \in RebindHandles : GetMyAssistant(u, h)
    \/ \E u \in RebindIds, h \in RebindHandles : GetMyEmployer(u, h)
    \/ Reply

SpecRebind == Init /\ [][NextRebind]_vars

\* -------------------- Properties --------------------
Tables == {"assistant", "employer"}
TableOf(kind) == IF kind = "assistant" THEN assistants ELSE employers
TableOfNext(kind) == IF kind = "assistant" THEN assistants' ELSE employers'

\* An identity field counts as present when it is non-empty: neither None nor
\* the empty value (0, ""), which is what the lookups test.
PresentId(r) == TruthyInt(r.tg_user_id)
PresentHandle(r) == TruthyStr(r.tg_username)

\* C1: with the requests served one after another, no table ever holds two
\* rows with the same present tg_user_id, nor two rows without a present
\* tg_user_id that carry the same present tg_username.
C1_UniqueIdentity ==
    \A kind \in Tables : \A r1, r2 \in TableOf(kind) :
        r1.id # r2.id =>
            /\ ~(PresentId(r1) /\ r1.tg_user_id = r2.tg_user_id)
            /\ ~(/\ ~PresentId(r1) /\ ~PresentId(r2)
                 /\ PresentHandle(r1) /\ r1.tg_username = r2.tg_username)
\* Two rows of one table, one found by its tg_user_id and one by its
\* tg_username alone, and both already overwritten by a later upsert.
C1_Witness ==
    /\ resp.op = "upsert" /\ resp.wrote = "update"
    /\ \E r1, r2 \in assistants :
          /\ r1.id # r2.id
          /\ PresentId(r1) /\ ~PresentId(r2) /\ PresentHandle(r2)
          /\ r1.tg_username = r2.tg_username

\* C2: when a session that found no row for its identity commits, the table
\* gains a row with that identity next to every row it held, whatever another
\* session has inserted since the lookup.
C2_RaceInserts ==
    [][ \A s \in Sessions :
          (/\ sessions[s].pc = "loaded"
           /\ sessions[s].obj.id = 0
           /\ sessions'[s].pc = "done")
          => LET old == TableOf(sessions[s].kind)
                 new == TableOfNext(sessions[s].kind)
             IN /\ old \subseteq new
                /\ \E r \in new :
                      /\ r.id \notin Ids(old)
                      /\ r.tg_user_id = sessions[s].payload.tg_user_id
                      /\ r.tg_username = sessions[s].payload.tg_username ]_vars
\* Both sessions are done, both inserted, and the table holds two rows with
\* the same present tg_user_id.
C2_Witness ==
    /\ \A s \in Sessions : sessions[s].pc = "done" /\ sessions[s].wrote = "insert"
    /\ \E r1, r2 \in assistants :
          r1.id # r2.id /\ PresentId(r1) /\ r1.tg_user_id = r2.tg_user_id

\* ---- Upserts as steps ----
PayloadsOf(kind) == IF kind = "assistant" THEN AssistantIn ELSE EmployerIn
IdentityOf(p) == <<p.tg_user_id, p.tg_username>>
NonEmptyIdentity(p) == TruthyInt(p.tg_user_id) \/ TruthyStr(p.tg_username)

\* The payload passes every validator of its endpoint.
Valid(kind, p) ==
    /\ normalize_phone(p.phone) # PhoneTooShort
    /\ validate_city(p.city) # BadCity
    /\ kind = "assistant" => validate_dates(p.availability_dates) # BadDate

\* The step is the upsert of payload p into the table of kind.
Upserts(kind, p) ==
    /\ resp = NoResp
    /\ resp'.op = "upsert" /\ resp'.kind = kind /\ resp'.ident = IdentityOf(p)
    /\ IF kind = "assistant" THEN UpsertAssistant(p) ELSE UpsertEmployer(p)

\* The table after one more upsert of p, served when the table is rows.
AfterUpsert(kind, rows, p, t) ==
    LET obj == Loaded(rows, FindObj(rows, p.tg_user_id, p.tg_username))
    IN IF kind = "assistant" THEN AssistantsAfter(rows, obj, p, t)
       ELSE EmployersAfter(rows, obj, p, t)

\* The settable fields of a stored row as the API returns them, and the
\* validated and normalized fields of a payload.
StoredFields(kind, r) ==
    IF kind = "assistant"
    THEN <<r.name, r.city, r.phone, r.exp, r.rate, r.about,
           assistant_to_dict(r).availability_dates>>
    ELSE <<r.clinic, r.city, r.phone, r.about>>
InputFields(kind, p) ==
    IF kind = "assistant"
    THEN <<Strip(p.name), validate_city(p.city), normalize_phone(p.phone), Strip(p.exp),
           StripOrNone(p.rate), StripOrNone(p.about),
           validate_dates(p.availability_dates)>>
    ELSE <<Strip(p.clinic), validate_city(p.city), normalize_phone(p.phone),
           StripOrNone(p.about)>>

\* After the successful upsert of p, its record holds the normalized input,
\* and a second upsert with the same identity finds that record, adds no row
\* and leaves it holding the second input (the same state when the input is
\* the same).
UpsertTwice(kind, p) ==
    LET T1 == TableOfNext(kind)
        id == resp'.id
    IN /\ StoredFields(kind, Row(T1, id)) = InputFields(kind, p)
       /\ \A p2 \in PayloadsOf(kind) :
             (IdentityOf(p2) = IdentityOf(p) /\ Valid(kind, p2)) =>
                 LET T2 == AfterUpsert(kind, T1, p2, now' + 1)
                 IN /\ FindObj(T1, p2.tg_user_id, p2.tg_username) = id
                    /\ Ids(T2) = Ids(T1)
                    /\ StoredFields(kind, Row(T2, id)) = InputFields(kind, p2)
                    /\ Row(T2, id).city = validate_city(p2.city)
                    /\ p2 = p => T2 = T1

\* C3 (as amended): for any identity with a non-empty tg_user_id or
\* tg_username and any valid fields, two upserts in a row with that identity
\* leave one record for it, the one the first call wrote (same id), holding
\* the normalized input of the second call, its city included.
C3_UpsertTwice ==
    [][ \A kind \in Tables : \A p \in PayloadsOf(kind) :
          (Upserts(kind, p) /\ resp'.status = 200 /\ NonEmptyIdentity(p))
              => UpsertTwice(kind, p) ]_vars
\* C3 as stated: the same for any identity, the empty one included.
C3_AnyIdentity ==
    [][ \A kind \in Tables : \A p \in PayloadsOf(kind) :
          (Upserts(kind, p) /\ resp'.status = 200) => UpsertTwice(kind, p) ]_vars
\* The second upsert for tg_user_id 1 has updated the only record ever
\* created, which now carries the second city.
C3_Witness ==
    /\ resp.op = "upsert" /\ resp.kind = "assistant" /\ resp.wrote = "update"
    /\ resp.ident = <<1, None>>
    /\ now = 1 /\ Cardinality(assistants) = 1
    /\ Row(assistants, resp.id).city = Strip(City2)

\* C4: an upsert whose payload fails a validator answers 400 and leaves both
\* tables as they were: no row created, no field of a stored row changed.
C4_RejectedUpsert ==
    [][ \A kind \in Tables : \A p \in PayloadsOf(kind) :
          (Upserts(kind, p) /\ ~Valid(kind, p))
              => /\ resp'.status = 400
                 /\ assistants' = assistants
                 /\ employers' = employers
                 /\ now' = now ]_vars
\* An upsert for tg_user_id 1 was rejected for its city while the record of
\* tg_user_id 1 is stored with city Moskva.
C4_Witness ==
    /\ resp.op = "upsert" /\ resp.kind = "assistant"
    /\ resp.status = 400 /\ resp.detail = "city"
    /\ resp.ident[1] = 1
    /\ \E r \in assistants : r.tg_user_id = 1 /\ r.city = City1

\* The step is an upsert or a get_my lookup that passed validation.
Resolves ==
    /\ resp = NoResp
    /\ resp'.op \in {"upsert", "get_my"}
    /\ resp'.status = 200
\* The id of the row the step selected, 0 when it selected none.
Selected == IF resp'.wrote = "insert" THEN 0 ELSE resp'.id

\* C5: the row selected by upsert and by get_my is one with the supplied
\* tg_user_id when it is supplied and some row has it, whatever row has the
\* supplied tg_username; else one with the supplied tg_username when it is
\* supplied and some row has it; else none, and upsert inserts a row.
C5_ProgressiveFallback ==
    [][ Resolves =>
          LET T == TableOf(resp'.kind)
              u == resp'.ident[1]
              h == resp'.ident[2]
              byId == { r \in T : TruthyInt(u) /\ r.tg_user_id = u }
              byName == { r \in T : TruthyStr(h) /\ r.tg_username = h }
          IN IF byId # {} THEN Selected \in Ids(byId)
             ELSE IF byName # {} THEN Selected \in Ids(byName)
             ELSE /\ Selected = 0
                  /\ resp'.op = "upsert" =>
                        /\ resp'.wrote = "insert"
                        /\ resp'.id \notin Ids(T)
                        /\ resp'.id \in Ids(TableOfNext(resp'.kind)) ]_vars
\* A lookup with both keys returned the row with the tg_user_id while a
\* different row carries the tg_username.
C5_Witness ==
    /\ resp.op = "get_my" /\ resp.kind = "assistant" /\ resp.id # 0
    /\ TruthyInt(resp.ident[1]) /\ TruthyStr(resp.ident[2])
    /\ \E r1, r2 \in assistants :
          /\ r1.id = resp.id /\ r1.tg_user_id = resp.ident[1]
          /\ r1.tg_username # resp.ident[2]
          /\ r2.id # r1.id /\ r2.tg_username = resp.ident[2]

\* The step is a successful upsert into the table of kind.
Upserted(kind) ==
    /\ resp = NoResp
    /\ resp'.op = "upsert" /\ resp'.kind = kind /\ resp'.status = 200

\* C6: an upsert that updates a record leaves its tg_user_id as it was when
\* the incoming one is empty and its tg_username as it was when the incoming
\* one is empty; a changed identity field holds the non-empty incoming value;
\* and no step turns a non-empty identity field of a record into an empty one.
C6_IdentityKept ==
    [][ \A kind \in Tables :
          /\ (Upserted(kind) /\ resp'.wrote = "update") =>
                LET old == Row(TableOf(kind), resp'.id)
                    new == Row(TableOfNext(kind), resp'.id)
                    u == resp'.ident[1]
                    h == resp'.ident[2]
                IN /\ ~TruthyInt(u) => new.tg_user_id = old.tg_user_id
                   /\ ~TruthyStr(h) => new.tg_username = old.tg_username
                   /\ new.tg_user_id # old.tg_user_id =>
                         TruthyInt(u) /\ new.tg_user_id = u
                   /\ new.tg_username # old.tg_username =>
                         TruthyStr(h) /\ new.tg_username = h
          /\ \A old \in TableOf(kind), new \in TableOfNext(kind) :
                old.id = new.id =>
                   /\ TruthyInt(old.tg_user_id) => TruthyInt(new.tg_user_id)
                   /\ TruthyStr(old.tg_username) => TruthyStr(new.tg_username) ]_vars
\* An upsert without tg_user_id found its record by tg_username and
\* updated it; the record still has its tg_user_id.
C6_Witness ==
    /\ resp.op = "upsert" /\ resp.kind = "assistant" /\ resp.wrote = "update"
    /\ ~TruthyInt(resp.ident[1]) /\ TruthyStr(resp.ident[2])
    /\ TruthyInt(Row(assistants, resp.id).tg_user_id)

\* C7: a successful upsert either adds one row with a new id to its table or
\* changes fields of the one row it returns; every other row of the table,
\* and the whole other table, is the same after as before.
C7_OneRow ==
    [][ \A kind \in Tables :
          Upserted(kind) =>
             LET T == TableOf(kind)
                 T1 == TableOfNext(kind)
             IN /\ \A other \in Tables \ {kind} : TableOfNext(other) = TableOf(other)
                /\ { r \in T : r.id # resp'.id } = { r \in T1 : r.id # resp'.id }
                /\ Cardinality({ r \in T1 : r.id = resp'.id }) = 1
                /\ IF resp'.wrote = "insert"
                   THEN resp'.id \notin Ids(T) /\ Cardinality(T1) = Cardinality(T) + 1
                   ELSE resp'.id \in Ids(T) /\ Cardinality(T1) = Cardinality(T) ]_vars
\* An upsert updated one of two stored rows, and the two differ in city.
C7_Witness ==
    /\ resp.op = "upsert" /\ resp.kind = "assistant" /\ resp.wrote = "update"
    /\ \E r \in assistants : r.id # resp.id /\ r.city # Row(assistants, resp.id).city

\* C8: every stored row has rating 5, and a row keeps its id, its rating
\* and its created_at through every upsert.
C8_RatingCreatedFixed ==
    [][ \A kind \in Tables :
          /\ \A r \in TableOfNext(kind) : r.rating = 5
          /\ resp'.op = "upsert" =>
                \A old \in TableOf(kind) : \E new \in TableOfNext(kind) :
                    /\ new.id = old.id
                    /\ new.rating = old.rating
                    /\ new.created_at = old.created_at ]_vars
\* An upsert updated a row created before the latest insert.
C8_Witness ==
    /\ resp.op = "upsert" /\ resp.kind = "assistant" /\ resp.wrote = "update"
    /\ Row(assistants, resp.id).created_at < now
    /\ Row(assistants, resp.id).rating = 5

\* C9: a table loses a row only in a step that answers 200 to an admin_delete
\* of the caller 810418985, so upserts, lookups, listings and rejected admin
\* calls lose none; and no row comes back: every row that enters a table is
\* stamped with a created_at later than that of every row stored before, and
\* has rating 5.
C9_DeleteOnly ==
    [][ \A kind \in Tables :
          /\ ~(Ids(TableOf(kind)) \subseteq Ids(TableOfNext(kind))) =>
                /\ resp'.op = "admin_delete" /\ resp'.status = 200
                /\ resp'.kind = kind
                /\ resp'.ident = <<810418985>>
          /\ \A r \in TableOf(kind) : r.created_at <= now
          /\ \A r \in TableOfNext(kind) \ TableOf(kind) :
                r.id \notin Ids(TableOf(kind)) =>
                   /\ resp'.op = "upsert"
                   /\ r.created_at = now + 1 /\ now' = now + 1
                   /\ r.rating = 5 ]_vars
\* After a delete, an upsert created a record again: it is the only row, it
\* has the id of the deleted one and a later created_at.
C9_Witness ==
    /\ resp.op = "upsert" /\ resp.kind = "assistant" /\ resp.wrote = "insert"
    /\ resp.id = 1
    /\ assistants # {} /\ \A r \in assistants : r.id = 1 /\ r.created_at = 2

\* admin_delete(kind, item_id) by the administrator: 404 and nothing changed
\* when no row of the table has the id; else the row is removed, and
\* afterwards a lookup by the id and a get_my lookup by the tg_user_id of the
\* removed row find nothing.
DeleteOutcome(kind, item_id) ==
    LET T == TableOf(kind)
        T1 == TableOfNext(kind)
    IN IF item_id \notin Ids(T)
       THEN /\ resp'.status = 404
            /\ assistants' = assistants /\ employers' = employers
       ELSE LET old == Row(T, item_id)
            IN /\ resp'.status = 200
               /\ T1 = T \ {old}
               /\ \A other \in Tables \ {kind} : TableOfNext(other) = TableOf(other)
               /\ FirstById(T1, item_id) = 0
               /\ FindObj(T1, old.tg_user_id, None) = 0
\* The row a get_my lookup by the tg_username of the removed row finds.
ByFormerHandle(kind, item_id) ==
    FindObj(TableOfNext(kind), NoneInt, Row(TableOf(kind), item_id).tg_username)

\* C10 (as amended): admin_delete by the administrator answers 404 and
\* changes nothing for an id no row has; else it removes the row, after which
\* a lookup by the id or by the former tg_user_id finds nothing, and a lookup
\* by the former tg_username finds nothing or another row that carries the
\* same tg_username.
C10_Delete ==
    [][ \A kind \in Tables : \A item_id \in ItemIds :
          AdminDelete(kind, item_id, ADMIN_TG_ID) =>
             /\ DeleteOutcome(kind, item_id)
             /\ item_id \in Ids(TableOf(kind)) =>
                   LET found == ByFormerHandle(kind, item_id)
                   IN found # 0 =>
                        /\ found # item_id
                        /\ found \in Ids(TableOf(kind))
                        /\ Row(TableOf(kind), found).tg_username
                              = Row(TableOf(kind), item_id).tg_username ]_vars
\* C10 as stated: after the removal the lookup by the former tg_username
\* finds nothing, like the other two.
C10_AllAbsent ==
    [][ \A kind \in Tables : \A item_id \in ItemIds :
          AdminDelete(kind, item_id, ADMIN_TG_ID) =>
             /\ DeleteOutcome(kind, item_id)
             /\ item_id \in Ids(TableOf(kind)) => ByFormerHandle(kind, item_id) = 0 ]_vars
\* A row was deleted, and a row with a tg_username stays in the table.
C10_Witness ==
    /\ resp.op = "admin_delete" /\ resp.kind = "assistant" /\ resp.status = 200
    /\ assistants # {} /\ resp.id \notin Ids(assistants)
    /\ \E r \in assistants : TruthyStr(r.tg_username)

\* The step serves an admin endpoint.
AdminStep ==
    /\ resp = NoResp
    /\ resp'.op \in {"admin_summary", "admin_list", "admin_delete"}

\* C11: every admin endpoint called with a tg_user_id other than 810418985
\* answers 403 and leaves both tables as they were; admin_delete answers 403
\* also for an unknown kind and for an id no row has.
C11_ForbiddenFirst ==
    [][ /\ (AdminStep /\ resp'.ident # <<810418985>>) =>
              /\ resp'.status = 403
              /\ assistants' = assistants /\ employers' = employers
        /\ \A kind \in Kinds, item_id \in ItemIds, caller \in Callers \ {810418985} :
              AdminDelete(kind, item_id, caller) => resp'.status = 403 ]_vars
\* A delete of an unknown kind by the regular user was answered 403 while
\* rows are stored.
C11_Witness ==
    /\ resp.op = "admin_delete" /\ resp.kind = "clinic"
    /\ resp.ident = <<1>> /\ resp.status = 403
    /\ assistants # {} /\ employers # {}

\* ---- Listings as steps ----
\* The step serves list_assistants; resp'.ident holds its filters
\* <<city, date, exp_min, rate_max>> and resp'.items the ids returned.
ListStep == resp = NoResp /\ resp'.op = "list"
NoFilters == <<None, None, NoneInt, NoneInt>>

\* Row a is ranked no lower than row b: higher rating, or the same rating and
\* not created earlier.
NotBelow(a, b) ==
    \/ a.rating > b.rating
    \/ a.rating = b.rating /\ a.created_at >= b.created_at
\* The ids come in ranking order, none twice.
InRankOrder(rows, items) ==
    /\ Cardinality(Range(items)) = Len(items)
    /\ \A i \in 1..(Len(items) - 1) :
          NotBelow(Row(rows, items[i]), Row(rows, items[i + 1]))

\* C12: a listing is ordered by descending rating, ties by descending
\* created_at; without filters it returns every row of a store of at most 500
\* rows and exactly 500 rows of a larger one, and no row left out is ranked
\* above a returned one.
C12_CapAndOrder ==
    [][ ListStep =>
          LET items == resp'.items
              n == Len(items)
          IN /\ InRankOrder(assistants, items)
             /\ resp'.ident = NoFilters =>
                   /\ n = IF Cardinality(assistants) > 500 THEN 500
                          ELSE Cardinality(assistants)
                   /\ Range(items) \subseteq Ids(assistants)
                   /\ \A r \in assistants : r.id \notin Range(items) =>
                         \A i \in 1..n : NotBelow(Row(assistants, items[i]), r) ]_vars
\* An unfiltered listing of a store of more than 500 rows returned 500.
C12_Witness ==
    /\ resp.op = "list" /\ resp.ident = NoFilters
    /\ Cardinality(assistants) > 500
    /\ Len(resp.items) = 500

\* The rows of the city when a city is given, else all rows.
Base(rows, city) == IF TruthyStr(city) THEN { r \in rows : r.city = Strip(city) } ELSE rows
\* Fewer than 500 rows of base are ranked above r.
InWindow(base, r) == Cardinality({ o \in base : ~NotBelow(r, o) }) < 500
\* Row r satisfies every filter that is given.
Satisfies(r, date, exp_min, rate_max) ==
    /\ TruthyStr(date) => Strip(date) \in Range(assistant_to_dict(r).availability_dates)
    /\ exp_min # NoneInt => exp_to_int(r.exp) >= exp_min
    /\ rate_max # NoneInt =>
          /\ rate_to_int(r.rate) # << >>
          /\ rate_to_int(r.rate)[1] <= rate_max
\* The city is in the allow-list and the date matches the pattern, both after
\* trimming, when given.
ValidFilters(f) ==
    /\ TruthyStr(f[1]) => Strip(f[1]) \in ALLOWED_CITIES
    /\ TruthyStr(f[2]) => MatchesDate(Strip(f[2]))

\* C13: a listing with valid filters returns, in ranking order, exactly the
\* rows that are among the 500 highest-ranked rows of the city-restricted
\* base set and satisfy every given filter: a row ranked beyond the 500 is
\* not returned even when it satisfies them.
C13_CapBeforeFilters ==
    [][ (ListStep /\ ValidFilters(resp'.ident)) =>
          LET f == resp'.ident
              base == Base(assistants, f[1])
              window == { r \in base : InWindow(base, r) }
          IN /\ InRankOrder(assistants, resp'.items)
             /\ Range(resp'.items) =
                   { r.id : r \in { w \in window : Satisfies(w, f[2], f[3], f[4]) } } ]_vars
\* A listing with rate_max 500 returned fewer than 500 rows and left out a
\* stored row with a rate of 400.
C13_Witness ==
    /\ resp.op = "list" /\ resp.ident = <<None, None, NoneInt, 500>>
    /\ resp.items # << >> /\ Len(resp.items) < 500
    /\ \E r \in assistants :
          r.id \notin Range(resp.items) /\ r.rate = <<"4", "0", "0">>

\* C14: with rate_max every returned row has a rate, and it parses to an
\* integer <= rate_max; of three rows with the rates 400, 600 and none,
\* rate_max = 500 returns the first alone; without filters the rows of a
\* store of at most 500 rows that have no rate are returned.
C14_RateMax ==
    [][ ListStep =>
          LET f == resp'.ident
              items == resp'.items
          IN /\ f[4] # NoneInt =>
                   \A i \in DOMAIN items :
                      LET r == Row(assistants, items[i])
                      IN /\ r.rate # None
                         /\ rate_to_int(r.rate) # << >>
                         /\ rate_to_int(r.rate)[1] <= f[4]
             /\ (/\ f = <<None, None, NoneInt, 500>>
                 /\ Cardinality(assistants) = 3
                 /\ { r.rate : r \in assistants } = {<<"4", "0", "0">>, <<"6", "0", "0">>, None})
                => \E r \in assistants : r.rate = <<"4", "0", "0">> /\ items = <<r.id>>
             /\ (f = NoFilters /\ Cardinality(assistants) <= 500) =>
                   \A r \in assistants : r.rate = None => r.id \in Range(items) ]_vars
\* The listing with rate_max 500 of the three rows with rates 400, 600 and
\* none returned one row.
C14_Witness ==
    /\ resp.op = "list" /\ resp.ident = <<None, None, NoneInt, 500>>
    /\ Cardinality(assistants) = 3
    /\ { r.rate : r \in assistants } = {<<"4", "0", "0">>, <<"6", "0", "0">>, None}
    /\ Len(resp.items) = 1

\* The listing is answered 200 with the empty list and both tables unchanged.
EmptyListing ==
    /\ resp'.status = 200
    /\ resp'.items = << >>
    /\ assistants' = assistants /\ employers' = employers

\* C15 (as amended): a listing with a city that is not in the allow-list
\* after trimming, or with a date that does not match \d{4}-\d{2}-\d{2} after
\* trimming, is answered with the empty list, whatever the other filters and
\* the rows are, and the tables are unchanged.
C15_InvalidFilter ==
    [][ (ListStep /\ ~ValidFilters(resp'.ident)) => EmptyListing ]_vars
\* C15 as stated: the same with the date matched as it is given.
C15_DateAsGiven ==
    [][ (/\ ListStep
         /\ \/ TruthyStr(resp'.ident[1]) /\ Strip(resp'.ident[1]) \notin ALLOWED_CITIES
            \/ TruthyStr(resp'.ident[2]) /\ ~MatchesDate(resp'.ident[2]))
        => EmptyListing ]_vars
\* A listing with a city outside the allow-list and a valid date returned
\* nothing from a store that holds rows.
C15_Witness ==
    /\ resp.op = "list" /\ resp.status = 200
    /\ resp.ident[1] = CityBad /\ resp.ident[2] = <<" ">> \o Date1
    /\ resp.items = << >>
    /\ assistants # {}

\* ---- Validators as calls ----
DigitCount(s) == Len(SelectSeq(s, IsDigit))
\* Digits only, but for a "+" as the first character.
PhoneForm(s) == \A i \in DOMAIN s : s[i] \in Digits \/ (s[i] = "+" /\ i = 1)

\* C16: normalize_phone fails with PhoneTooShort when its input has fewer than
\* 10 digits, and otherwise returns a str made of digits and at most one "+",
\* which is then its first character; so every stored phone has that form and
\* at least 10 digits.
C16_PhoneForm ==
    /\ resp.op = "normalize_phone" =>
          LET phone == resp.ident[1]
              out == resp.items[1]
          IN IF DigitCount(phone) < 10 THEN out = PhoneTooShort
             ELSE out # PhoneTooShort /\ PhoneForm(out)
    /\ \A r \in assistants \cup employers : PhoneForm(r.phone) /\ DigitCount(r.phone) >= 10

\* Each str of out is less than the next one.
Ascending(out) == \A i \in 1..(Len(out) - 1) : StrLess(out[i], out[i + 1])
Trimmed(dates) == [i \in DOMAIN dates |-> Strip(dates[i])]

\* C17 (as amended): validate_dates fails with BadDate when an entry, trimmed
\* of surrounding whitespace, does not match \d{4}-\d{2}-\d{2}; otherwise it
\* returns the trimmed entries without duplicates in strictly ascending
\* order, with no calendar check.  So the availability_dates of every stored
\* row are strictly ascending entries that match the pattern.
C17_ValidateDates ==
    /\ resp.op = "validate_dates" =>
          LET dates == Trimmed(resp.ident[1])
              out == resp.items[1]
          IN IF \E i \in DOMAIN dates : ~MatchesDate(dates[i]) THEN out = BadDate
             ELSE /\ out # BadDate
                  /\ Range(out) = Range(dates)
                  /\ Ascending(out)
    /\ \A r \in assistants :
          LET stored == json_loads(r.availability_dates)
          IN Ascending(stored) /\ \A i \in DOMAIN stored : MatchesDate(stored[i])
\* C17 as stated: the same with the entries matched and returned as they are
\* given.
C17_EntriesAsGiven ==
    /\ resp.op = "validate_dates" =>
          LET dates == resp.ident[1]
              out == resp.items[1]
          IN IF \E i \in DOMAIN dates : ~MatchesDate(dates[i]) THEN out = BadDate
             ELSE /\ out # BadDate
                  /\ Range(out) = Range(dates)
                  /\ Ascending(out)
    /\ \A r \in assistants :
          LET stored == json_loads(r.availability_dates)
          IN Ascending(stored) /\ \A i \in DOMAIN stored : MatchesDate(stored[i])
\* validate_dates returned two dates in order for a list of three entries
\* that were out of order, one padded and one repeated, while a stored row
\* holds 2024-13-99 after an earlier date.
C17_Witness ==
    /\ resp.op = "validate_dates"
    /\ Len(resp.ident[1]) = 3
    /\ resp.ident[1] = <<Date2, <<" ">> \o Date1 \o <<" ">>, Date2>>
    /\ resp.items[1] = <<Date1, Date2>>
    /\ \E r \in assistants : json_loads(r.availability_dates) = <<Date1, DateNoCalendar>>

\* The function C18 describes: one trailing "+" removed from the trimmed str,
\* the remainder parsed as an integer, 0 when it does not parse.
OneTrailingPlusRemoved(exp_str) ==
    LET t == Strip(exp_str)
        u == IF t # << >> /\ t[Len(t)] = "+" THEN SubSeq(t, 1, Len(t) - 1) ELSE t
    IN IF IntOf(u) = << >> THEN 0 ELSE IntOf(u)[1]

\* C18: exp_to_int removes one trailing "+" and parses the remainder as an
\* integer, returning 0 when it does not parse ("1+2" and "3++" give 0), and
\* never fails; the experience_min filter keeps exactly the rows whose
\* experience so coerced is at least the threshold.
C18_OneTrailingPlus ==
    /\ resp.op = "exp_to_int" =>
          resp.items[1] = OneTrailingPlusRemoved(resp.ident[1])
    /\ (/\ resp.op = "list"
        /\ resp.ident[1] = None /\ resp.ident[2] = None
        /\ resp.ident[3] # NoneInt /\ resp.ident[4] = NoneInt)
       => Range(resp.items) =
             { r.id : r \in { a \in assistants :
                                OneTrailingPlusRemoved(a.exp) >= resp.ident[3] } }

\* ---- Validation order ----
\* C19: the upserts validate the phone, then the city, then (assistants) the
\* dates, and answer 400 with the detail of the first that fails: an invalid
\* phone gives the phone detail whatever the city and the dates are, a valid
\* phone with an invalid city the city detail whatever the dates are, and the
\* date detail is given only when the phone and the city are valid.
C19_FailFast ==
    [][ \A kind \in Tables : \A p \in FaultPayloads(kind) :
          Upserts(kind, p) =>
             LET badPhone == DigitCount(p.phone) < 10
                 badCity == Strip(p.city) \notin ALLOWED_CITIES
                 badDates == /\ kind = "assistant"
                             /\ \E i \in DOMAIN p.availability_dates :
                                   ~MatchesDate(Strip(p.availability_dates[i]))
             IN /\ badPhone => resp'.status = 400 /\ resp'.detail = "phone"
                /\ (~badPhone /\ badCity) => resp'.status = 400 /\ resp'.detail = "city"
                /\ (~badPhone /\ ~badCity /\ badDates)
                      => resp'.status = 400 /\ resp'.detail = "date"
                /\ (~badPhone /\ ~badCity /\ ~badDates) => resp'.status = 200
                /\ resp'.detail = "date" => ~badPhone /\ ~badCity ]_vars
\* An assistant upsert was refused for its city, and the table holds the
\* row of an earlier valid upsert.
C19_Witness ==
    /\ resp.op = "upsert" /\ resp.kind = "assistant"
    /\ resp.status = 400 /\ resp.detail = "city"
    /\ assistants # {}

\* ---- Handle fallback ----
\* The step is the upsert of p, whose tg_user_id is present and is that of no
\* row of the table, and whose tg_username is present.
UpsertsNewId(kind, p) ==
    /\ Upserts(kind, p)
    /\ TruthyInt(p.tg_user_id) /\ TruthyStr(p.tg_username)
    /\ \A r \in TableOf(kind) : r.tg_user_id # p.tg_user_id

\* The upsert of p selected R and gave it the tg_user_id of p without adding
\* a row, after which the tg_user_id R had finds no row.
Rebinds(kind, p, R) ==
    /\ resp'.status = 200 /\ resp'.wrote = "update" /\ resp'.id = R.id
    /\ Ids(TableOfNext(kind)) = Ids(TableOf(kind))
    /\ Row(TableOfNext(kind), R.id).tg_user_id = p.tg_user_id
    /\ FindObj(TableOfNext(kind), R.tg_user_id, None) = 0

\* C20 (as amended): an upsert with a present tg_user_id that no row has and
\* a present tg_username selects the first row R that has this tg_username,
\* gives it the new tg_user_id without adding a row, and a get_my lookup by
\* the tg_user_id R had, alone, then finds no row.
C20_HandleRebinds ==
    [][ \A kind \in Tables : \A p \in RebindPayloads(kind) :
          UpsertsNewId(kind, p) =>
             \A R \in TableOf(kind) :
                (/\ R.tg_username = p.tg_username
                 /\ \A r \in TableOf(kind) : r.tg_username = p.tg_username => R.id <= r.id)
                => Rebinds(kind, p, R) ]_vars
\* C20 as stated: the same for every row R that has this tg_username.
C20_AnyRowWithHandle ==
    [][ \A kind \in Tables : \A p \in RebindPayloads(kind) :
          UpsertsNewId(kind, p) =>
             \A R \in TableOf(kind) :
                R.tg_username = p.tg_username => Rebinds(kind, p, R) ]_vars
\* Account 3 upserted with the username of the only row and was answered
\* with an update of it: the row bears tg_user_id 3, and the lookups by the
\* other accounts find nothing.
C20_Witness ==
    /\ resp.op = "upsert" /\ resp.kind = "assistant" /\ resp.wrote = "update"
    /\ resp.ident = <<3, <<"a", "l">>>>
    /\ Cardinality(assistants) = 1
    /\ \A r \in assistants : r.id = resp.id /\ r.tg_user_id = 3
    /\ FindObj(assistants, 1, None) = 0 /\ FindObj(assistants, 2, None) = 0

\* ---- The two tables ----
OtherKind(kind) == IF kind = "assistant" THEN "employer" ELSE "assistant"

\* C21: an upsert and an admin_delete of one kind leave the table of the
\* other kind as it was; an upsert whose identity matches no row of its own
\* table inserts a row whatever the other table holds, so one identity can
\* have a row in each; and get_my, list_assistants, admin_summary and the
\* admin listings leave both tables as they were.
C21_TablesApart ==
    [][ resp = NoResp =>
          /\ \A kind \in Tables :
                (resp'.op \in {"upsert", "admin_delete"} /\ resp'.kind = kind)
                   => TableOfNext(OtherKind(kind)) = TableOf(OtherKind(kind))
          /\ \A kind \in Tables :
                (/\ resp'.op = "upsert" /\ resp'.kind = kind /\ resp'.status = 200
                 /\ \A r \in TableOf(kind) :
                       /\ ~(TruthyInt(resp'.ident[1]) /\ r.tg_user_id = resp'.ident[1])
                       /\ ~(TruthyStr(resp'.ident[2]) /\ r.tg_username = resp'.ident[2]))
                   => /\ resp'.wrote = "insert"
                      /\ Ids(TableOfNext(kind)) = Ids(TableOf(kind)) \cup {resp'.id}
          /\ resp'.op \in {"get_my", "list", "admin_summary", "admin_list"}
                => assistants' = assistants /\ employers' = employers ]_vars
\* An employer upsert by account 1 inserted a row while account 1 has an
\* assistant row: the identity has one row in each table.
C21_Witness ==
    /\ resp.op = "upsert" /\ resp.kind = "employer" /\ resp.wrote = "insert"
    /\ resp.ident[1] = 1
    /\ \E a \in assistants : a.tg_user_id = 1
    /\ \E e \in employers : e.id = resp.id /\ e.tg_user_id = 1

====
